---- MODULE Spec2Model ----
(***************************************************************************)
(* A model of ngsim's netlist subsystem (src/ngsim/netlist.py): the        *)
(* CircuitSection object (parse, synthesize, append, reset, match, filter, *)
(* apply, point access) and the argument codec (unpack_args, repack_args,  *)
(* replace_argument).                                                      *)
(*                                                                         *)
(* Text is modelled character by character: a Python str is a sequence of  *)
(* one-character strings, a list of str is a sequence of such sequences.   *)
(* A Python dict is a sequence of <<key, value>> pairs in insertion order. *)
(***************************************************************************)
EXTENDS Integers, Sequences, FiniteSets, TLC

----------------------------------------------------------------------------
(* Python str primitives                                                   *)

\* A str literal of the source as a sequence of characters.
Chars(s) == [i \in 1..Len(s) |-> SubSeq(s, i, i)]

LowerLetters == Chars("abcdefghijklmnopqrstuvwxyz")
UpperLetters == Chars("ABCDEFGHIJKLMNOPQRSTUVWXYZ")

\* str.upper() on one character.
UpperChar(c) ==
    IF \E i \in 1..Len(LowerLetters) : LowerLetters[i] = c
    THEN UpperLetters[CHOOSE i \in 1..Len(LowerLetters) : LowerLetters[i] = c]
    ELSE c

\* str.upper().
Upper(s) == [i \in 1..Len(s) |-> UpperChar(s[i])]

\* The characters str.strip() removes and \s matches (str.isspace()), among
\* the ASCII characters: space, \t, \n, \r, \f, the vertical tab \x0b and
\* the separators \x1c, \x1d, \x1e, \x1f.
IsSpace(c) ==
    c \in {" ", "\t", "\n", "\r", "\f", "", "", "", "", ""}

RECURSIVE LStrip(_)
\* str.lstrip().
LStrip(s) == IF s # <<>> /\ IsSpace(Head(s)) THEN LStrip(Tail(s)) ELSE s

RECURSIVE RStrip(_)
\* str.rstrip().
RStrip(s) ==
    IF s # <<>> /\ IsSpace(s[Len(s)]) THEN RStrip(SubSeq(s, 1, Len(s) - 1)) ELSE s

\* str.strip().
Strip(s) == RStrip(LStrip(s))

RECURSIVE SplitFrom(_, _, _)
SplitFrom(s, sep, cur) ==
    IF s = <<>> THEN <<cur>>
    ELSE IF Head(s) = sep THEN <<cur>> \o SplitFrom(Tail(s), sep, <<>>)
    ELSE SplitFrom(Tail(s), sep, Append(cur, Head(s)))

\* str.split(sep) for a one-character separator: empty pieces are kept.
Split(s, sep) == SplitFrom(s, sep, <<>>)

RECURSIVE Find(_, _, _)
\* str.find(sep) counted from 1, from position i on: 0 when sep is absent.
Find(s, sep, i) ==
    IF i > Len(s) THEN 0 ELSE IF s[i] = sep THEN i ELSE Find(s, sep, i + 1)

SplitAt(s, i) ==
    IF i = 0 THEN <<s>> ELSE <<SubSeq(s, 1, i - 1), SubSeq(s, i + 1, Len(s))>>

\* str.split(sep, 1): at most one split, at the first separator.
Split1(s, sep) == SplitAt(s, Find(s, sep, 1))

\* s[m-1:n] of Python for 1-based m and n: indices beyond the ends are cut.
Slice(s, m, n) ==
    LET lo == IF m < 1 THEN 1 ELSE m
        hi == IF n > Len(s) THEN Len(s) ELSE n
    IN  IF lo > hi THEN <<>> ELSE SubSeq(s, lo, hi)

RECURSIVE Join(_, _)
\* sep.join(parts).
Join(parts, sep) ==
    IF parts = <<>> THEN <<>>
    ELSE IF Len(parts) = 1 THEN parts[1]
    ELSE parts[1] \o sep \o Join(Tail(parts), sep)

\* str(i) for the small non-negative integers the model uses.
Digits == Chars("0123456789")
RECURSIVE Str(_)
Str(i) == IF i < 10 THEN <<Digits[i + 1]>> ELSE Str(i \div 10) \o <<Digits[(i % 10) + 1]>>

----------------------------------------------------------------------------------------------------------------------------------------
(* Python re: the subset of regular expressions the source uses.           *)
(* A pattern is compiled to alternatives, each a sequence of atoms         *)
(* [k |-> kind, c |-> character, q |-> quantifier].                        *)
(* An intermediate result that is used more than once is passed to a       *)
(* helper operator as an argument, here and below.                         *)

\* Whether sequence s starts with sequence t.
StartsWith(s, t) == Len(s) >= Len(t) /\ SubSeq(s, 1, Len(t)) = t

\* The quantifier at the start of rest and its length in the pattern:
\* * and {,} are "*", + and {1,} are "+", anything else is "1".
ReQuant(rest) ==
    CASE StartsWith(rest, <<"*">>)                -> <<"*", 1>>
      [] StartsWith(rest, <<"+">>)                -> <<"+", 1>>
      [] StartsWith(rest, <<"{", ",", "}">>)      -> <<"*", 3>>
      [] StartsWith(rest, <<"{", "1", ",", "}">>) -> <<"+", 4>>
      [] OTHER                                    -> <<"1", 0>>

ReKind(c) ==
    CASE c = "." -> "any"
      [] c = "^" -> "bol"
      [] c = "$" -> "eol"
      [] OTHER   -> "lit"

RECURSIVE ReAtoms(_)
RECURSIVE ReAtomQ(_, _, _, _)
\* The atoms of one alternative.
ReAtoms(p) ==
    IF p = <<>> THEN <<>>
    ELSE IF Head(p) = "\\" /\ Len(p) >= 2
    THEN ReAtomQ(IF p[2] = "s" THEN "space" ELSE "lit", p[2],
                 SubSeq(p, 3, Len(p)), ReQuant(SubSeq(p, 3, Len(p))))
    ELSE ReAtomQ(ReKind(Head(p)), Head(p), Tail(p), ReQuant(Tail(p)))

ReAtomQ(kind, ch, rest, q) ==
    <<[k |-> kind, c |-> ch, q |-> q[1]]>>
        \o ReAtoms(SubSeq(rest, q[2] + 1, Len(rest)))

RECURSIVE ReSplitAlt(_, _)
\* The alternatives of a pattern: split at every unescaped | .
ReSplitAlt(p, cur) ==
    IF p = <<>> THEN <<cur>>
    ELSE IF Head(p) = "\\" /\ Len(p) >= 2
         THEN ReSplitAlt(SubSeq(p, 3, Len(p)), cur \o SubSeq(p, 1, 2))
    ELSE IF Head(p) = "|" THEN <<cur>> \o ReSplitAlt(Tail(p), <<>>)
    ELSE ReSplitAlt(Tail(p), Append(cur, Head(p)))

ReCompileAlts(alts) == [i \in 1..Len(alts) |-> ReAtoms(alts[i])]

\* re.compile(pattern).
ReCompile(p) == ReCompileAlts(ReSplitAlt(p, <<>>))

AtomOk(a, c) ==
    CASE a.k = "lit"   -> c = a.c
      [] a.k = "any"   -> c # "\n"
      [] a.k = "space" -> IsSpace(c)
      [] OTHER         -> FALSE

RECURSIVE RunLen(_, _, _)
\* How many characters from position i on satisfy atom a.
RunLen(a, s, i) ==
    IF i <= Len(s) /\ AtomOk(a, s[i]) THEN 1 + RunLen(a, s, i + 1) ELSE 0

RECURSIVE ReEnd(_, _, _)
RECURSIVE ReRep(_, _, _, _, _)
RECURSIVE ReRepTry(_, _, _, _, _, _)
\* The position after the match of atoms at position i of s that a
\* backtracking matcher finds first (greedy quantifiers), 0 when none.
ReEnd(atoms, s, i) ==
    IF atoms = <<>> THEN i
    ELSE CASE Head(atoms).k = "bol" ->
                  IF i = 1 THEN ReEnd(Tail(atoms), s, i) ELSE 0
           [] Head(atoms).k = "eol" ->
                  IF i = Len(s) + 1 \/ (i = Len(s) /\ s[i] = "\n")
                  THEN ReEnd(Tail(atoms), s, i) ELSE 0
           [] Head(atoms).k = "eos" ->
                  IF i = Len(s) + 1 THEN ReEnd(Tail(atoms), s, i) ELSE 0
           [] Head(atoms).q = "1" ->
                  IF i <= Len(s) /\ AtomOk(Head(atoms), s[i])
                  THEN ReEnd(Tail(atoms), s, i + 1) ELSE 0
           [] OTHER ->
                  ReRep(Tail(atoms), s, i, RunLen(Head(atoms), s, i),
                        IF Head(atoms).q = "+" THEN 1 ELSE 0)

\* Try n repetitions, then n-1, ... down to min.
ReRep(rest, s, i, n, min) ==
    IF n < min THEN 0 ELSE ReRepTry(rest, s, i, n, min, ReEnd(rest, s, i + n))

ReRepTry(rest, s, i, n, min, e) ==
    IF e # 0 THEN e ELSE ReRep(rest, s, i, n - 1, min)

RECURSIVE ReAltEnd(_, _, _)
\* The first alternative that matches at position i decides.
ReAltTry(alts, s, i, e) == IF e # 0 THEN e ELSE ReAltEnd(Tail(alts), s, i)

ReAltEnd(alts, s, i) ==
    IF alts = <<>> THEN 0 ELSE ReAltTry(alts, s, i, ReEnd(Head(alts), s, i))

\* re.match(pattern, s) as a truth value, for a compiled pattern: a match
\* at the start of s, which need not reach the end of s.
ReMatchC(compiled, s) == ReAltEnd(compiled, s, 1) # 0

----------------
(* Python dict: a sequence of <<key, value>> pairs in insertion order.     *)

DictKeys(d) == [i \in 1..Len(d) |-> d[i][1]]
DictValues(d) == [i \in 1..Len(d) |-> d[i][2]]
DictHas(d, k) == \E i \in 1..Len(d) : d[i][1] = k
DictIndex(d, k) == CHOOSE i \in 1..Len(d) : d[i][1] = k
\* The set of the members of a sequence.
Range(seq) == { seq[i] : i \in 1..Len(seq) }
\* d[k], for a key that is present.
DictGet(d, k) == d[DictIndex(d, k)][2]
\* A dict whose assignment moves the key to the end (delete, then insert):
\* what d[k] = v would be if an existing key did not keep its position.
DictSetLast(d, k, v) == Append(SelectSeq(d, LAMBDA kv : kv[1] # k), <<k, v>>)
\* d[k] = v: an existing key keeps its position, a new key goes last.
DictSet(d, k, v) ==
    IF DictHas(d, k) THEN [d EXCEPT ![DictIndex(d, k)] = <<k, v>>]
    ELSE Append(d, <<k, v>>)
\* d without key k (the dict after d.pop(k)), for a key that is present.
DictPop(d, k) ==
    LET i == DictIndex(d, k) IN SubSeq(d, 1, i - 1) \o SubSeq(d, i + 1, Len(d))

----------------------------------------------------------------------------
(* CircuitSection: the type table                                          *)

Ports2  == <<Chars("n+"), Chars("n-")>>
Ports2n == <<Chars("n1"), Chars("n2")>>
Ports3  == <<Chars("n1"), Chars("n2"), Chars("n3")>>
Ports4  == <<Chars("n1"), Chars("n2"), Chars("n3"), Chars("n4")>>
Ports4c == <<Chars("n+"), Chars("n-"), Chars("nc+"), Chars("nc-")>>

\* CircuitSection.emap: elemtype -> <<type name, port roles>>.
emap ==
    ("*"  :> <<"comment", <<>>>>) @@
    ("."  :> <<"statement", <<>>>>) @@
    ("A"  :> <<"xspice", <<>>>>) @@
    ("B"  :> <<"behavioral source", Ports2>>) @@
    ("C"  :> <<"capacitor", Ports2>>) @@
    ("D"  :> <<"diode", Ports2>>) @@
    ("E"  :> <<"vcvs", Ports4c>>) @@
    ("F"  :> <<"cccs", Ports2>>) @@
    ("G"  :> <<"vccs", Ports4c>>) @@
    ("H"  :> <<"ccvs", Ports2>>) @@
    ("I"  :> <<"isource", Ports2>>) @@
    ("J"  :> <<"jfet", Ports3>>) @@
    ("K"  :> <<"coupled inductor", <<>>>>) @@
    ("L"  :> <<"inductor", Ports2>>) @@
    ("M"  :> <<"mosfet", Ports4>>) @@
    ("N"  :> <<"numerical device gss", <<>>>>) @@
    ("O"  :> <<"lossy transmission line", Ports4>>) @@
    ("P"  :> <<"coupled multiconductor line", <<>>>>) @@
    ("Q"  :> <<"bjt", Ports4>>) @@
    ("R"  :> <<"resistor", Ports2>>) @@
    ("S"  :> <<"vcsw", Ports4c>>) @@
    ("T"  :> <<"lossless transmission line", Ports4>>) @@
    ("U"  :> <<"uniformely distributed rc line", Ports3>>) @@
    ("V"  :> <<"vsource", Ports2>>) @@
    ("W"  :> <<"icsw", Ports2>>) @@
    ("X"  :> <<"subcircuit", <<>>>>) @@
    ("XC" :> <<"capacitor", Ports2n>>) @@
    ("XM" :> <<"mosfet", Ports4>>) @@
    ("Y"  :> <<"single lossy transmission line", Ports4>>) @@
    ("Z"  :> <<"mesfet", Ports3>>)

\* The value identify_linetype raises instead of returning.
Raised == "raised"

LineType(letter_1, letter_2) ==
    IF letter_1 = "X" /\ letter_2 \in {"M", "C"} THEN letter_1 \o letter_2
    ELSE letter_1

KnownType(elemtype) == IF elemtype \notin DOMAIN emap THEN Raised ELSE elemtype

LineTypeOf(line) ==
    IF Len(line) < 2 THEN Raised
    ELSE KnownType(LineType(UpperChar(line[1]), UpperChar(line[2])))

\* CircuitSection.identify_linetype: the emap key of a line, or Raised
\* (a line of one character: line[1]; a prefix that is no key of emap).
identify_linetype(line) == LineTypeOf(LStrip(line))

\* zip(port_list, values) as a dict.
Zip(port_list, values) ==
    [i \in 1..(IF Len(port_list) < Len(values) THEN Len(port_list)
               ELSE Len(values)) |-> <<port_list[i], values[i]>>]

\* CircuitSection.resolve_ports.
resolve_ports(line, elemtype) ==
    Zip(emap[elemtype][2], Slice(Split(line, " "), 2, Len(emap[elemtype][2]) + 1))

\* hashlib.md5(s).hexdigest(): the digest of s is written md5:s, a str that
\* names its preimage, so two uids are equal exactly when the hashed
\* strings are (no collision of md5 is modelled).
Md5(s) == Chars("md5:") \o s

\* The uid parse and append compute for line text `line` at index i.
Uid(i, line) == Md5(Str(i) \o line)

----------------------------------------------------------------------------
(* CircuitSection.parse                                                    *)

\* The patterns of parse.
SkipLineRe == ReCompile(Chars("^$|^\\.end$|^\\s*\\*"))
SubcktRe   == ReCompile(Chars("^.subckt*"))
ControlRe  == ReCompile(Chars("^.control"))
EndcRe     == ReCompile(Chars("^.endc"))
EndsRe     == ReCompile(Chars("^.ends.*"))

\* State of the loop of parse before any line.
ParseStart ==
    [ok |-> TRUE, elements |-> <<>>, inside_ctl_section |-> FALSE,
     hierarchy |-> <<Chars("root")>>]

\* parse raises: the loop stops and no model is returned.
ParseRaise(st) == [st EXCEPT !.ok = FALSE]

\* The Element parse stores for a line.
MakeElement(elems, elemtype, ports, hierarchy) ==
    [instance |-> elems[1],
     type     |-> Chars(emap[elemtype][1]),
     ports    |-> ports,
     location |-> Join(hierarchy, <<"/">>),
     args     |-> Slice(elems, Len(ports) + 2, Len(elems))]

\* The end of an iteration: a line matching ^.ends.* pops the hierarchy.
ParsePop(st, isEnds) ==
    IF ~isEnds THEN st
    ELSE IF st.hierarchy = <<>> THEN ParseRaise(st)
    ELSE [st EXCEPT !.hierarchy = SubSeq(@, 1, Len(@) - 1)]

\* The else branch: the line becomes an Element under its uid.
ParseElement(st, line, elemtype, uid, isEnds) ==
    IF elemtype = Raised \/ DictHas(st.elements, uid) THEN ParseRaise(st)
    ELSE ParsePop([st EXCEPT !.elements =
                       Append(@, <<uid, MakeElement(Split(line, " "), elemtype,
                                                    resolve_ports(line, elemtype),
                                                    st.hierarchy)>>)],
                  isEnds)

\* After the push: a line of a control section is dropped, any other line
\* is classified and stored.
ParseBody(st, i, line, inCtl, isEnds) ==
    IF inCtl
    THEN ParsePop([st EXCEPT !.inside_ctl_section = ~ReMatchC(EndcRe, line)],
                  isEnds)
    ELSE ParseElement(st, line, identify_linetype(line), Uid(i, line), isEnds)

\* A line that is not skipped: a line matching ^.subckt* pushes its second
\* token on the hierarchy (IndexError when it has none).
ParsePush(st, i, line, elems, isSub) ==
    IF isSub /\ Len(elems) < 2 THEN ParseRaise(st)
    ELSE ParseBody(IF isSub
                   THEN [st EXCEPT !.hierarchy = Append(@, elems[2])] ELSE st,
                   i, line,
                   ReMatchC(ControlRe, line) \/ st.inside_ctl_section,
                   ReMatchC(EndsRe, line))

ParseStripped(st, i, line) ==
    IF ReMatchC(SkipLineRe, line) THEN st
    ELSE ParsePush(st, i, line, Split(line, " "), ReMatchC(SubcktRe, line))

\* One iteration of the loop of parse, on line `raw` at index i (from 0).
ParseLine(st, i, raw) == IF ~st.ok THEN st ELSE ParseStripped(st, i, Strip(raw))

RECURSIVE ParseLoop(_, _, _)
ParseLoop(st, lines, i) ==
    IF i > Len(lines) THEN st
    ELSE ParseLoop(ParseLine(st, i - 1, lines[i]), lines, i + 1)

ParseResult(st) ==
    [ok |-> st.ok, elements |-> IF st.ok THEN st.elements ELSE <<>>]

\* CircuitSection.parse on a list of lines.
ParseLines(lines) == ParseResult(ParseLoop(ParseStart, lines, 1))

\* CircuitSection.parse on a str: [ok, elements]; ok is FALSE when parse
\* raises, and then no model is returned.
parse(netlist) == ParseLines(Split(netlist, "\n"))

----------------------------------------------------------------------------
(* CircuitSection.synthesize and the netlist property                      *)

\* The parts synthesize adds for the keys of an Element, in the order parse
\* creates them: instance, ports, args.
SynthParts(instance, sp, sa) ==
    instance \o <<" ">>
        \o (IF sp # <<>> THEN sp \o <<" ">> ELSE <<>>)
        \o (IF sa # <<>> THEN sa ELSE <<>>)

\* The text synthesize builds for one Element.
SynthLine(e) ==
    SynthParts(e.instance, Join(DictValues(e.ports), <<" ">>),
               Join(e.args, <<" ">>))

RECURSIVE SynthBody(_)
SynthBody(circuit) ==
    IF circuit = <<>> THEN <<>>
    ELSE <<SynthLine(Head(circuit)[2]) \o <<"\n">>>>
           \o (IF Head(circuit)[2].instance = Chars(".ends")
               THEN <<<<"\n">>>> ELSE <<>>)
           \o SynthBody(Tail(circuit))

\* CircuitSection.synthesize: the list it stores in self._netlist.
synthesize(name, circuit) ==
    <<Chars("* ") \o name \o Chars("\n\n")>> \o SynthBody(circuit)

\* "".join(self._netlist)
JoinNetlist(lst) == Join(lst, <<>>)

----------------------------------------------------------------------------
(* CircuitSection: point access, reset, append                             *)
(* A circuit is a dict uid -> Element.  An operation that can raise        *)
(* returns a record whose ok field is FALSE when it raises.                *)

\* CircuitSection.__setitem__: self.circuit[key] = item.
setitem(circuit, key, item) == DictSet(circuit, key, item)

\* CircuitSection.reset: the new self.circuit, a deep copy of parsed_circuit.
reset(parsed) == parsed

\* The last three statements of append, on what parse(line) returned.
AppendParsed(circuit, params) ==
    IF ~params.ok \/ params.elements = <<>>
    THEN [ok |-> FALSE, circuit |-> circuit]
    ELSE [ok |-> TRUE,
          circuit |-> DictSet(circuit, params.elements[1][1],
                              params.elements[1][2])]

\* CircuitSection.append: [ok, circuit].  The uid found by the while loop
\* is overwritten by the uid parse computes for the line at index 0.
append(circuit, line) == AppendParsed(circuit, parse(line))

----------------------------------------------------------------------------
(* CircuitSection.match, filter, apply                                     *)

\* The Element fields that hold a str; re.match raises on the others.
StrFields == {"instance", "type", "location"}

MatchCompiled(circuit, key, compiled) ==
    DictKeys(SelectSeq(circuit, LAMBDA kv : ReMatchC(compiled, kv[2][key])))

\* CircuitSection.match: [ok, val], val the list of matching uids.
match(circuit, key, val) ==
    IF circuit # <<>> /\ key \notin StrFields
    THEN [ok |-> FALSE, val |-> <<>>]
    ELSE [ok |-> TRUE, val |-> MatchCompiled(circuit, key, ReCompile(val))]

\* elem in lst
InList(elem, lst) == \E i \in 1..Len(lst) : lst[i] = elem

RECURSIVE FilterRest(_, _, _)
\* A filter step that keeps nmatch instead of its members in matches: the
\* criteria before the last would not count.
FilterStepLast(circuit, matches, rest, nmatch) ==
    IF ~nmatch.ok THEN nmatch
    ELSE FilterRest(circuit, nmatch.val, Tail(rest))

\* mmatch of filter, when match did not raise.
FilterStep(circuit, matches, rest, nmatch) ==
    IF ~nmatch.ok THEN nmatch
    ELSE FilterRest(circuit,
                    SelectSeq(nmatch.val, LAMBDA elem : InList(elem, matches)),
                    Tail(rest))

\* The loop of filter over the criteria after the first.
FilterRest(circuit, matches, rest) ==
    IF rest = <<>> THEN [ok |-> TRUE, val |-> matches]
    ELSE FilterStep(circuit, matches, rest,
                    match(circuit, rest[1][1], rest[1][2]))

FilterFirst(circuit, filt, first) ==
    IF filt.shape = "tuple" \/ ~first.ok THEN first
    ELSE FilterRest(circuit, first.val, Tail(filt.items))

\* CircuitSection.filter: [ok, val].  filt is [shape, items]: shape is
\* "tuple" (items holds the one pair), "list" or "dict" (items holds the
\* pairs in order; the keys of a dict are distinct).
filter(circuit, filt) ==
    IF filt.items = <<>> THEN [ok |-> FALSE, val |-> <<>>]
    ELSE FilterFirst(circuit, filt,
                     match(circuit, filt.items[1][1], filt.items[1][2]))

\* A Python value that is a keyword argument, a dict key or a dict value is
\* [t, s]: t is "none" (None), "str", "num" (a non-zero number) or "zero" (a
\* number equal to 0); s is the text str() and "{}".format give.
None == [t |-> "none", s |-> Chars("None")]
PyStr(chars) == [t |-> "str", s |-> chars]
\* bool(v)
Truthy(v) == (v.t = "str" /\ v.s # <<>>) \/ v.t = "num"
\* "{}".format(v)
Format(v) == v.s

\* The transforms the examples give to apply.  func is [name, value, key]:
\* value is the Python value of the keyword vdd, temp or variable, key is
\* the keyword name of alter_var.  The result is [ok, element]; ok is FALSE
\* when the transform raises.  Each edits the Element it is given and
\* returns it.
\*   alter_vdd, alter_temp: elem["args"] = [str(value)]
\*   alter_var: sargs = elem["args"][0].split("="), an IndexError on an
\*     Element without args; elem["args"] = ["{}={}".format(sargs[0],
\*     variable)] when sargs[0] == name, and elem as it is otherwise.
CallTransform(func, element) ==
    IF func.name \in {"alter_vdd", "alter_temp"}
    THEN [ok |-> TRUE,
          element |-> [element EXCEPT !.args = <<Format(func.value)>>]]
    ELSE IF element.args = <<>> THEN [ok |-> FALSE, element |-> element]
    ELSE IF Split(element.args[1], "=")[1] = func.key
    THEN [ok |-> TRUE,
          element |-> [element EXCEPT !.args =
              <<Split(element.args[1], "=")[1] \o <<"=">> \o Format(func.value)>>]]
    ELSE [ok |-> TRUE, element |-> element]

\* The circuit after self.circuit[uid] = r, for r what func returned; as it
\* was when func raised.
ApplyStore(circuit, uid, r) ==
    IF r.ok THEN DictSet(circuit, uid, r.element) ELSE circuit

RECURSIVE ApplyLoop(_, _, _)
\* One iteration, r being what func gave for the Element of the first uid:
\* the loop ends where func raises.
ApplyStep(st, func, matches, r) ==
    IF ~r.ok
    THEN [ok |-> FALSE, circuit |-> st.circuit,
          calls |-> Append(st.calls, Head(matches))]
    ELSE ApplyLoop([ok      |-> TRUE,
                    circuit |-> ApplyStore(st.circuit, Head(matches), r),
                    calls   |-> Append(st.calls, Head(matches))],
                   func, Tail(matches))

\* for uid in matches: self.circuit[uid] = func(self.circuit[uid]).
\* st is [ok, circuit, calls]; calls lists the uids whose Element was passed
\* to func, in call order.
ApplyLoop(st, func, matches) ==
    IF matches = <<>> THEN st
    ELSE ApplyStep(st, func, matches,
                   CallTransform(func, DictGet(st.circuit, Head(matches))))

\* return len(matches), unless func raised.
ApplyDone(done, n) ==
    [ok |-> done.ok, circuit |-> done.circuit,
     ret |-> IF done.ok THEN n ELSE 0, calls |-> done.calls]

ApplyMatches(circuit, func, matches) ==
    IF ~matches.ok
    THEN [ok |-> FALSE, circuit |-> circuit, ret |-> 0, calls |-> <<>>]
    ELSE ApplyDone(ApplyLoop([ok |-> TRUE, circuit |-> circuit, calls |-> <<>>],
                             func, matches.val),
                   Len(matches.val))

\* An apply that does not filter: func is called for every uid.
apply_unfiltered(circuit, func, filt) ==
    ApplyMatches(circuit, func, [ok |-> TRUE, val |-> DictKeys(circuit)])

\* CircuitSection.apply: [ok, circuit, ret, calls].
apply(circuit, func, filt) == ApplyMatches(circuit, func, filter(circuit, filt))

----------------------------------------------------------------------------
(* The argument codec                                                      *)

\* unpacked[s[0]] = None or s[1], for s the split token.
UnpackSet(unpacked, s) ==
    DictSet(unpacked, PyStr(s[1]), IF Len(s) = 1 THEN None ELSE PyStr(s[2]))

RECURSIVE unpack_args(_)
\* unpack_args: the dict built from a list of tokens.  Written back to
\* front: the dict of the first n-1 tokens, then the assignment of the last.
unpack_args(args) ==
    IF args = <<>> THEN <<>>
    ELSE UnpackSet(unpack_args(SubSeq(args, 1, Len(args) - 1)),
                   Split1(args[Len(args)], "="))

\* repack_args: one token per key, in the order of the dict.
repack_args(args) ==
    [i \in 1..Len(args) |->
        IF Truthy(args[i][2])
        THEN Format(args[i][1]) \o <<"=">> \o Format(args[i][2])
        ELSE Format(args[i][1])]

RECURSIVE UpperKey(_, _, _)
\* tmp of replace_argument: args with key k replaced by k.upper().
UpperKey(args, key, tmp) ==
    IF args = <<>> THEN tmp
    ELSE UpperKey(Tail(args), key,
                  DictSet(tmp,
                          IF Head(args)[1] = key
                          THEN PyStr(Upper(Head(args)[1].s)) ELSE Head(args)[1],
                          Head(args)[2]))

RECURSIVE RenameLoop(_, _, _, _)
\* The loop of the else branch of replace_argument over items, the list
\* of the items of args before the loop: [ok, args].
RenameLoop(args, items, key, val) ==
    IF items = <<>> THEN [ok |-> TRUE, args |-> args]
    ELSE IF ~DictHas(args, Head(items)[1]) THEN [ok |-> FALSE, args |-> args]
    ELSE RenameLoop(
             UpperKey(DictSet(DictPop(args, Head(items)[1]),
                              IF Head(items)[1] = key THEN val ELSE Head(items)[1],
                              DictGet(args, Head(items)[1])),
                      key, <<>>),
             Tail(items), key, val)

\* The two branches of replace_argument on the unpacked args: [ok, args].
ReplaceIn(args, key, val) ==
    IF ~DictHas(args, key) THEN [ok |-> FALSE, args |-> args]
    ELSE IF Truthy(DictGet(args, key))
    THEN [ok |-> TRUE, args |-> DictSet(args, key, val)]
    ELSE RenameLoop(args, args, key, val)

\* A replace_argument that stores the args it has reached when the call
\* raises: the dict it worked on would be the Element's own.
ReplaceStoreAlways(circuit, uid, new) ==
    [ok |-> new.ok,
     circuit |-> DictSet(circuit, uid,
         [DictGet(circuit, uid) EXCEPT !.args = repack_args(new.args)])]

\* cir[uid]["args"] = repack_args(args), unless the call raised before.
ReplaceStore(circuit, uid, new) ==
    IF ~new.ok THEN [ok |-> FALSE, circuit |-> circuit]
    ELSE [ok |-> TRUE,
          circuit |-> DictSet(circuit, uid,
              [DictGet(circuit, uid) EXCEPT !.args = repack_args(new.args)])]

\* replace_argument(uid, cir, key, val): [ok, circuit].  key is a str
\* (a sequence of characters), val a Python value.
replace_argument(circuit, uid, key, val) ==
    IF ~DictHas(circuit, uid) THEN [ok |-> FALSE, circuit |-> circuit]
    ELSE ReplaceStore(circuit, uid,
             ReplaceIn(unpack_args(DictGet(circuit, uid).args), PyStr(key), val))

----------------------------------------------------------------------------
(* read_netlist, clean_netlist, remove_enclosed_space                      *)

\* str.lower() on one character.
LowerChar(c) ==
    IF \E i \in 1..Len(UpperLetters) : UpperLetters[i] = c
    THEN LowerLetters[CHOOSE i \in 1..Len(UpperLetters) : UpperLetters[i] = c]
    ELSE c

\* str.lower().
Lower(s) == [i \in 1..Len(s) |-> LowerChar(s[i])]

\* The patterns of clean_netlist.
DropLineRe == ReCompile(Chars("^\\+\\s*$|^\\s{,}$|^\\*.*$"))
ContinuedRe == ReCompile(Chars("^\\+"))
IncludeRe == ReCompile(Chars("^.include.*"))

\* re.sub("\$.*", "", line): the line up to its first $.
CutComment(line) ==
    IF Find(line, "$", 1) = 0 THEN line
    ELSE SubSeq(line, 1, Find(line, "$", 1) - 1)

\* re.sub("^\+\s{,}", " ", line) for a line that starts with + .
ContinuationText(line) == <<" ">> \o LStrip(Tail(line))

RECURSIVE CombineLines(_, _)
\* The loop that joins a continued line to the line before it: [ok, lines];
\* netlist_b[-1] raises when no line is before it.
CombineLines(lines, out) ==
    IF lines = <<>> THEN [ok |-> TRUE, lines |-> out]
    ELSE IF ~ReMatchC(ContinuedRe, Head(lines))
    THEN CombineLines(Tail(lines), Append(out, Head(lines)))
    ELSE IF out = <<>> THEN [ok |-> FALSE, lines |-> <<>>]
    ELSE CombineLines(Tail(lines),
             [out EXCEPT ![Len(out)] = @ \o ContinuationText(Head(lines))])

RECURSIVE SpaceRun(_, _)
\* How many spaces s holds from position i on.
SpaceRun(s, i) == IF i <= Len(s) /\ s[i] = " " THEN 1 + SpaceRun(s, i + 1) ELSE 0

RECURSIVE UnifyFrom(_, _)
\* re.sub("\t| {1,}", " ", s) from position i on.
UnifyFrom(s, i) ==
    IF i > Len(s) THEN <<>>
    ELSE IF s[i] = "\t" THEN <<" ">> \o UnifyFrom(s, i + 1)
    ELSE IF s[i] = " " THEN <<" ">> \o UnifyFrom(s, i + SpaceRun(s, i))
    ELSE <<s[i]>> \o UnifyFrom(s, i + 1)

RECURSIVE EnclosedFromOpen(_, _, _)
\* A loop of remove_enclosed_space whose state is set by the first ' and
\* never cleared.
EnclosedFromOpen(s, i, state) ==
    IF i > Len(s) THEN <<>>
    ELSE IF s[i] = "'" THEN <<"'">> \o EnclosedFromOpen(s, i + 1, TRUE)
    ELSE IF state /\ s[i] = " " THEN EnclosedFromOpen(s, i + 1, state)
    ELSE <<s[i]>> \o EnclosedFromOpen(s, i + 1, state)

RECURSIVE EnclosedFrom(_, _, _)
\* The loop of remove_enclosed_space from position i on.
EnclosedFrom(s, i, state) ==
    IF i > Len(s) THEN <<>>
    ELSE IF s[i] = "'" THEN <<"'">> \o EnclosedFrom(s, i + 1, ~state)
    ELSE IF state /\ s[i] = " " THEN EnclosedFrom(s, i + 1, state)
    ELSE <<s[i]>> \o EnclosedFrom(s, i + 1, state)

\* remove_enclosed_space.
remove_enclosed_space(string) == EnclosedFrom(string, 1, FALSE)

\* The length of the match of " {1,}= {1,}" at position i of s, 0 when
\* there is none; n is the number of spaces from i on.
AssignMatch(s, i, n) ==
    IF n >= 1 /\ i + n <= Len(s) /\ s[i + n] = "=" /\ SpaceRun(s, i + n + 1) >= 1
    THEN n + 1 + SpaceRun(s, i + n + 1)
    ELSE 0

RECURSIVE AssignFrom(_, _)
AssignStep(s, i, m) ==
    IF m > 0 THEN <<"=">> \o AssignFrom(s, i + m)
    ELSE <<s[i]>> \o AssignFrom(s, i + 1)

\* re.sub(" {1,}= {1,}", "=", s) from position i on.
AssignFrom(s, i) ==
    IF i > Len(s) THEN <<>> ELSE AssignStep(s, i, AssignMatch(s, i, SpaceRun(s, i)))

\* Lowercase all letters unless .include statement.
LowerUnlessInclude(line) ==
    IF ReMatchC(IncludeRe, line) THEN line ELSE Lower(line)

\* The steps of clean_netlist on one combined line.
CleanLine(line) ==
    LowerUnlessInclude(AssignFrom(remove_enclosed_space(UnifyFrom(line, 1)), 1))

CleanCombined(c) ==
    IF ~c.ok THEN [ok |-> FALSE, text |-> <<>>]
    ELSE [ok |-> TRUE,
          text |-> Join([i \in 1..Len(c.lines) |-> CleanLine(c.lines[i])],
                        <<"\n">>)]

\* netlist_a of clean_netlist: the lines without their end of line comments.
CutComments(lines) == [i \in 1..Len(lines) |-> CutComment(lines[i])]

\* netlist_a0 of clean_netlist: the lines kept.
CleanKept(lines) == SelectSeq(lines, LAMBDA l : ~ReMatchC(DropLineRe, l))

LStripLines(lines) == [i \in 1..Len(lines) |-> LStrip(lines[i])]

\* clean_netlist on a str: [ok, text]; ok is FALSE when it raises.
clean_netlist(netlist) ==
    CleanCombined(CombineLines(
        CutComments(CleanKept(LStripLines(Split(netlist, "\n")))), <<>>))

\* ifile.read() on a file opened with open(filename, "r"): text mode with
\* universal newlines, so "\r\n" and a lone "\r" are both read as "\n".
RECURSIVE FileReadFrom(_, _)
FileReadFrom(raw, i) ==
    IF i > Len(raw) THEN <<>>
    ELSE IF raw[i] = "\r" /\ i < Len(raw) /\ raw[i + 1] = "\n"
         THEN <<"\n">> \o FileReadFrom(raw, i + 2)
    ELSE IF raw[i] = "\r" THEN <<"\n">> \o FileReadFrom(raw, i + 1)
    ELSE <<raw[i]>> \o FileReadFrom(raw, i + 1)

FileRead(raw) == FileReadFrom(raw, 1)

\* read_netlist on a file whose content is raw.
read_netlist(raw) == clean_netlist(FileRead(raw))

----------------------------------------------------------------------------
(* The state: one CircuitSection, and the values two pure pipelines work   *)
(* on (parse -> synthesize -> parse, unpack_args -> repack_args).          *)

VARIABLES
    source,          \* the netlist text given to CircuitSection(netlist, True)
    filename,        \* self.filename
    parsed_circuit,  \* self.parsed_circuit
    circuit,         \* self.circuit
    _netlist,        \* self._netlist
    last,            \* the latest call on the object: [op, in, ok, ret, calls]
    nops,            \* how many calls could change the circuit (reset aside)
    rt,              \* the round trip pipeline
    codec            \* the argument codec pipeline

vars == <<source, filename, parsed_circuit, circuit, _netlist, last, nops,
          rt, codec>>

objvars == <<source, filename, parsed_circuit, circuit, _netlist, last, nops>>

\* Bounds of the model.
MaxOps   == 2
MaxLines == 4
MaxArgs  == 3

Idle == [stage |-> "idle"]

NoCall == [op |-> "init", in |-> <<>>, ok |-> TRUE, ret |-> <<>>, calls |-> <<>>]

----------------------------------------------------------------------------
(* Specification Spec: a CircuitSection under its callers                  *)

\* Netlists a CircuitSection is built from.
Sources ==
    { Chars("r10 a b 1k\nr1 a b 2k\nvdd vdd 0 1.8"),
      Chars(".temp 27\nxr1 in out res w=1 l=2"),
      Chars("v1 a b 0 0 w=1\nxr1 w a b"),
      Chars(".param x=1\n.param y=3") }

\* CircuitSection.__init__(netlist, is_netlist=True), for a netlist that
\* parse accepts.
Constructed(text, parsed) ==
    /\ parsed.ok
    /\ source = text
    /\ filename = Chars("Netlist")
    /\ parsed_circuit = parsed.elements
    /\ circuit = parsed.elements
    /\ _netlist = synthesize(filename, circuit)

Init ==
    /\ \E text \in Sources : Constructed(text, parse(text))
    /\ last = NoCall
    /\ nops = 0
    /\ rt = Idle
    /\ codec = Idle

\* Inputs of the calls.
Items ==
    { [instance |-> Chars("r9"), type |-> Chars("resistor"),
       ports |-> <<<<Chars("n+"), Chars("x")>>, <<Chars("n-"), Chars("y")>>>>,
       location |-> Chars("root"), args |-> <<Chars("9k")>>] }
NewKey == Chars("new")
EditArgLists == { <<Chars("w=2"), Chars("w=2")>> }
\* The transforms of the examples with their keyword arguments:
\* alter_vdd(elem, vdd=1.8), alter_temp(elem, temp=27) and
\* alter_var(elem, variable=2, name="x").
Funcs ==
    { [name |-> "alter_vdd", value |-> [t |-> "num", s |-> Chars("1.8")],
       key |-> <<>>],
      [name |-> "alter_temp", value |-> [t |-> "num", s |-> Chars("27")],
       key |-> <<>>],
      [name |-> "alter_var", value |-> [t |-> "num", s |-> Chars("2")],
       key |-> Chars("x")] }
ApplyFilters ==
    { [shape |-> "dict", items |-> <<<<"instance", Chars("vdd")>>,
                                     <<"type", Chars("vsource")>>>>],
      [shape |-> "dict", items |-> <<<<"instance", Chars(".param")>>,
                                     <<"type", Chars("statement")>>>>],
      [shape |-> "tuple", items |-> <<<<"instance", Chars("r1")>>>>],
      [shape |-> "tuple", items |-> <<<<"args", Chars("w")>>>>] }
\* Queries made between the calls that change the circuit.
ObjMatches == { <<"instance", Chars("r1")>>, <<"type", Chars("res")>> }
ObjFilters ==
    { [shape |-> "tuple", items |-> <<<<"instance", Chars("xr.*")>>>>],
      [shape |-> "dict", items |-> <<<<"instance", Chars(".temp")>>,
                                     <<"type", Chars("statement")>>>>] }
AppendLines ==
    { Chars(".temp 27"), Chars("r1 a b 2k"), Chars("1bad"), Chars(".param") }
ArgKeys == { Chars("w"), Chars("0"), Chars("a") }
ArgVals == { PyStr(Chars("2")) }

\* cir[key] = item
SetItem(key, item) ==
    /\ nops < MaxOps
    /\ circuit' = setitem(circuit, key, item)
    /\ last' = [op |-> "setitem", in |-> [key |-> key, item |-> item],
                ok |-> TRUE, ret |-> <<>>, calls |-> <<>>]
    /\ nops' = nops + 1
    /\ UNCHANGED <<source, filename, parsed_circuit, _netlist, rt, codec>>

\* The edit when circuit and parsed_circuit hold the same Element objects
\* (a shallow copy in __init__ and reset): it shows in both.
EditArgsShared(uid, args) ==
    /\ nops < MaxOps
    /\ DictHas(circuit, uid)
    /\ circuit' = DictSet(circuit, uid, [DictGet(circuit, uid) EXCEPT !.args = args])
    /\ parsed_circuit' =
           IF DictHas(parsed_circuit, uid)
           THEN DictSet(parsed_circuit, uid,
                        [DictGet(parsed_circuit, uid) EXCEPT !.args = args])
           ELSE parsed_circuit
    /\ last' = [op |-> "edit", in |-> [uid |-> uid, args |-> args],
                ok |-> TRUE, ret |-> <<>>, calls |-> <<>>]
    /\ nops' = nops + 1
    /\ UNCHANGED <<source, filename, _netlist, rt, codec>>

\* cir[uid]["args"] = args: an edit of the Element cir[uid] returns.
EditArgs(uid, args) ==
    /\ nops < MaxOps
    /\ DictHas(circuit, uid)
    /\ circuit' = DictSet(circuit, uid, [DictGet(circuit, uid) EXCEPT !.args = args])
    /\ last' = [op |-> "edit", in |-> [uid |-> uid, args |-> args],
                ok |-> TRUE, ret |-> <<>>, calls |-> <<>>]
    /\ nops' = nops + 1
    /\ UNCHANGED <<source, filename, parsed_circuit, _netlist, rt, codec>>

\* cir.reset(): it is not counted in nops, the budget of the calls that
\* can take the circuit away from parsed_circuit.
Reset ==
    /\ circuit' = reset(parsed_circuit)
    /\ last' = [op |-> "reset", in |-> <<>>, ok |-> TRUE, ret |-> <<>>,
                calls |-> <<>>]
    /\ UNCHANGED <<source, filename, parsed_circuit, _netlist, nops, rt, codec>>

\* A call that may change the circuit returns: r is [ok, circuit, ...].
Return(op, in, r, ret, calls) ==
    /\ circuit' = r.circuit
    /\ last' = [op |-> op, in |-> in, ok |-> r.ok, ret |-> ret, calls |-> calls]
    /\ nops' = nops + 1
    /\ UNCHANGED <<source, filename, parsed_circuit, _netlist, rt, codec>>

\* cir.append(line)
AppendLine(line) ==
    /\ nops < MaxOps
    /\ Return("append", [line |-> line], append(circuit, line), <<>>, <<>>)

ApplyReturn(in, r) == Return("apply", in, r, r.ret, r.calls)

\* cir.apply(func, filt, **kwargs)
Apply(func, filt) ==
    /\ nops < MaxOps
    /\ ApplyReturn([func |-> func, filt |-> filt], apply(circuit, func, filt))

\* replace_argument(uid, cir, key, val)
ReplaceArgument(uid, key, val) ==
    /\ nops < MaxOps
    /\ Return("replace_argument", [uid |-> uid, key |-> key, val |-> val],
              replace_argument(circuit, uid, key, val), <<>>, <<>>)

\* A query returns: r is [ok, val].
Answer(op, in, r) ==
    /\ last' = [op |-> op, in |-> in, ok |-> r.ok, ret |-> r.val, calls |-> <<>>]
    /\ UNCHANGED <<source, filename, parsed_circuit, circuit, _netlist, nops,
                   rt, codec>>

\* cir.match(key, val)
Match(key, val) ==
    Answer("match", [key |-> key, val |-> val], match(circuit, key, val))

\* cir.filter(filt)
Filter(filt) == Answer("filter", [filt |-> filt], filter(circuit, filt))

\* A netlist property that returns the join of the stored list without
\* calling synthesize(): the text of the latest serialization.
NetlistCached ==
    /\ last' = [op |-> "netlist", in |-> <<>>, ok |-> TRUE,
                ret |-> JoinNetlist(_netlist), calls |-> <<>>]
    /\ UNCHANGED <<source, filename, parsed_circuit, circuit, _netlist, nops,
                   rt, codec>>

\* cir.netlist: synthesize() stores the list, the property returns its join.
Netlist ==
    /\ _netlist' = synthesize(filename, circuit)
    /\ last' = [op |-> "netlist", in |-> <<>>, ok |-> TRUE,
                ret |-> JoinNetlist(_netlist'), calls |-> <<>>]
    /\ UNCHANGED <<source, filename, parsed_circuit, circuit, nops, rt, codec>>

Next ==
    \/ \E key \in Range(DictKeys(circuit)) \cup {NewKey}, item \in Items :
           SetItem(key, item)
    \/ \E uid \in Range(DictKeys(circuit)), args \in EditArgLists :
           EditArgs(uid, args)
    \/ Reset
    \/ \E line \in AppendLines : AppendLine(line)
    \/ \E func \in Funcs, filt \in ApplyFilters : Apply(func, filt)
    \/ \E uid \in Range(DictKeys(circuit)), key \in ArgKeys, val \in ArgVals :
           ReplaceArgument(uid, key, val)
    \/ \E m \in ObjMatches : Match(m[1], m[2])
    \/ \E filt \in ObjFilters : Filter(filt)
    \/ Netlist

Spec == Init /\ [][Next]_vars

----------------------------------------------------------------------------
(* Specification SpecQuery: match and filter on a parsed circuit           *)

\* The most criteria a list or dict given to filter holds.
MaxCriteria == 2

\* Netlists the queried CircuitSection is built from.
QuerySources ==
    { Chars("r10 a b 1k\nr1 a b 2k\nvdd vdd 0 1.8"),
      Chars(".subckt inv in out\nxm1 out in vdd vdd pfet\nr1 out 0 1k\n.ends\nxinv a b inv"),
      Chars("r1 a b 1k\nr1 c d 1k\nc1 a 0 1p") }

\* (key, pattern) pairs; match raises on the key "args".
Criteria ==
    { <<"instance", Chars("r1")>>,
      <<"instance", Chars("r.*")>>,
      <<"instance", Chars("x|v")>>,
      <<"type", Chars("resistor|mosfet")>>,
      <<"location", Chars("root/inv")>>,
      <<"args", Chars("w")>> }

CriteriaLists == UNION { [1..n -> Criteria] : n \in 1..MaxCriteria }

DistinctKeys(items) ==
    \A i, j \in 1..Len(items) : items[i][1] = items[j][1] => i = j

\* The arguments given to filter: a tuple, a list, a dict.
Filters ==
    { [shape |-> "tuple", items |-> <<c>>] : c \in Criteria }
      \cup { [shape |-> "list", items |-> l] : l \in CriteriaLists }
      \cup { [shape |-> "dict", items |-> l] :
                 l \in { m \in CriteriaLists : DistinctKeys(m) } }

\* Queries on the ports of the Elements, by match and by filter with a
\* tuple.
PortsCriteria == { <<"ports", Chars("a.*")>> }
PortsFilters == { [shape |-> "tuple", items |-> <<c>>] : c \in PortsCriteria }

InitQuery ==
    /\ \E text \in QuerySources : Constructed(text, parse(text))
    /\ last = NoCall
    /\ nops = 0
    /\ rt = Idle
    /\ codec = Idle

NextQuery ==
    \/ \E c \in Criteria \cup PortsCriteria : Match(c[1], c[2])
    \/ \E filt \in Filters \cup PortsFilters : Filter(filt)

SpecQuery == InitQuery /\ [][NextQuery]_vars

----------------------------------------------------------------------------
(* Specification SpecRT: parse, synthesize, parse again                    *)

\* The lines the netlist texts are made of.
RTLines ==
    { Chars(".subckt a n1"), Chars(".ends"), Chars(".control"), Chars(".endc"),
      Chars("r1 a b 1k"), Chars("x1  n1 a w=1"), Chars("* c") }

RTTexts ==
    { Join(ls, <<"\n">>) : ls \in UNION { [1..n -> RTLines] : n \in 1..MaxLines } }

\* The object part of the state, for the specifications of pure functions.
NoObject ==
    /\ source = <<>>
    /\ filename = Chars("Netlist")
    /\ parsed_circuit = <<>>
    /\ circuit = <<>>
    /\ _netlist = <<>>
    /\ last = NoCall
    /\ nops = 0

InitRT ==
    /\ NoObject
    /\ \E text \in RTTexts :
           rt = [stage |-> "text", text |-> text, first |-> <<>>, out |-> <<>>,
                 second |-> [ok |-> TRUE, elements |-> <<>>]]
    /\ codec = Idle

RTParsed(parsed) ==
    /\ parsed.ok
    /\ rt' = [rt EXCEPT !.stage = "parsed", !.first = parsed.elements]

\* CircuitSection(text, True): parse(text), for a text parse accepts.
RTParse ==
    /\ rt.stage = "text"
    /\ RTParsed(parse(rt.text))
    /\ UNCHANGED <<objvars, codec>>

\* The netlist property on the parsed circuit.
RTSerialize ==
    /\ rt.stage = "parsed"
    /\ rt' = [rt EXCEPT !.stage = "serialized",
                        !.out = JoinNetlist(synthesize(filename, rt.first))]
    /\ UNCHANGED <<objvars, codec>>

\* CircuitSection(out, True): parse(out).
RTReparse ==
    /\ rt.stage = "serialized"
    /\ rt' = [rt EXCEPT !.stage = "reparsed", !.second = parse(rt.out)]
    /\ UNCHANGED <<objvars, codec>>

NextRT == RTParse \/ RTSerialize \/ RTReparse

SpecRT == InitRT /\ [][NextRT]_vars

----------------------------------------------------------------------------
(* Specification SpecCodec: unpack_args, then repack_args                  *)

\* The tokens the args lists are made of: bare values and assignments.
ArgTokens ==
    { Chars("0"), Chars("1n"), Chars("w=1"), Chars("w=2"), Chars("l=2"),
      Chars("w=") }

ArgLists == UNION { [1..n -> ArgTokens] : n \in 1..MaxArgs }

InitCodec ==
    /\ NoObject
    /\ rt = Idle
    /\ \E args \in ArgLists :
           codec = [stage |-> "args", args |-> args, unpacked |-> <<>>,
                    edited |-> FALSE, out |-> <<>>]

\* args = unpack_args(cir[uid]["args"])
Unpack ==
    /\ codec.stage = "args"
    /\ codec' = [codec EXCEPT !.stage = "unpacked",
                              !.unpacked = unpack_args(codec.args)]
    /\ UNCHANGED <<objvars, rt>>

\* The values a caller stores in the dict: the numbers 2 and 0.
EditVals ==
    { [t |-> "num", s |-> Chars("2")], [t |-> "zero", s |-> Chars("0")] }
EditKeys == { Chars("w") }

\* d[key] = val on the dict unpack_args returned, once.
EditArg(key, val) ==
    /\ codec.stage = "unpacked"
    /\ ~codec.edited
    /\ codec' = [codec EXCEPT !.edited = TRUE,
                              !.unpacked = DictSet(@, PyStr(key), val)]
    /\ UNCHANGED <<objvars, rt>>

\* args = repack_args(args)
Repack ==
    /\ codec.stage = "unpacked"
    /\ codec' = [codec EXCEPT !.stage = "repacked",
                              !.out = repack_args(codec.unpacked)]
    /\ UNCHANGED <<objvars, rt>>

NextCodec ==
    \/ Unpack
    \/ \E key \in EditKeys, val \in EditVals : EditArg(key, val)
    \/ Repack

SpecCodec == InitCodec /\ [][NextCodec]_vars

----------------------------------------------------------------------------
(* Specification SpecParse: parse of a text, then append of a line         *)

\* The most lines a text given to parse holds here.
MaxParseLines == 3

\* The lines the texts are made of.
ParseLineSet ==
    { Chars(".subckt a n1"), Chars(".subckt b n2"), Chars(".ends"),
      Chars("r1 a b 1k"), Chars("r1 a"), Chars("rends a b 1k"),
      Chars("xsubckt1 a b"), Chars("rcontrol a b"), Chars("1bad"),
      Chars("1control a"), Chars(".control"), Chars(".endc"), Chars("* c"),
      <<>> }

ParseTexts ==
    { Join(ls, <<"\n">>) :
          ls \in UNION { [1..n -> ParseLineSet] : n \in 1..MaxParseLines } }

\* The lines given to append.
ParseAppendLines == { Chars("1bad"), Chars("1control a"), Chars("r1 a b 1k") }

InitParse ==
    /\ NoObject
    /\ \E text \in ParseTexts :
           rt = [stage |-> "text", text |-> text, first |-> <<>>, out |-> <<>>,
                 second |-> [ok |-> TRUE, elements |-> <<>>]]
    /\ codec = Idle

\* CircuitSection(text, True) when parse raises: no object is returned.
RTParseRaises ==
    /\ rt.stage = "text"
    /\ ~parse(rt.text).ok
    /\ rt' = [rt EXCEPT !.stage = "raised"]
    /\ UNCHANGED <<objvars, codec>>

RTAppended(line, r) ==
    rt' = [rt EXCEPT !.stage = "appended", !.out = line,
                     !.second = [ok |-> r.ok, elements |-> r.circuit]]

\* cir.append(line) on the object just built.
RTAppend(line) ==
    /\ rt.stage = "parsed"
    /\ RTAppended(line, append(rt.first, line))
    /\ UNCHANGED <<objvars, codec>>

NextParse ==
    \/ RTParse
    \/ RTParseRaises
    \/ \E line \in ParseAppendLines : RTAppend(line)

SpecParse == InitParse /\ [][NextParse]_vars

----------------------------------------------------------------------------
(* Specification SpecBuild: CircuitSection from a text and from a file     *)

\* The most lines a raw content holds here.
MaxRawLines == 2

\* The lines the raw contents are made of.
RawLineSet ==
    { Chars("R1 a b 1k"), Chars("r1 a b 1k"), Chars("+ tc=1"), Chars("* c"),
      Chars("r2  a b w = 1"), Chars("r3 a b 1k $ c"), Chars(".include F.sp"),
      Chars("r4 a b 1k\r"), Chars("r5 a b\rr6 c d"), <<>> }

RawTexts ==
    { Join(ls, <<"\n">>) :
          ls \in UNION { [1..n -> RawLineSet] : n \in 1..MaxRawLines } }

\* What a construction gave: the model, or that it raised.
NotBuilt == [done |-> FALSE, ok |-> FALSE, elements |-> <<>>]
Built(parsed) == [done |-> TRUE, ok |-> parsed.ok, elements |-> parsed.elements]

InitBuild ==
    /\ NoObject
    /\ \E text \in RawTexts :
           rt = [stage |-> "raw", text |-> text, fromtext |-> NotBuilt,
                 fromfile |-> NotBuilt]
    /\ codec = Idle

\* self.parse(self._netlist) on what read_netlist returned, if it returned.
ParseCleaned(cleaned) ==
    IF ~cleaned.ok THEN [ok |-> FALSE, elements |-> <<>>] ELSE parse(cleaned.text)

\* CircuitSection(text, True): self._netlist is the text as given.
BuildFromText ==
    /\ ~rt.fromtext.done
    /\ rt' = [rt EXCEPT !.fromtext = Built(parse(rt.text))]
    /\ UNCHANGED <<objvars, codec>>

\* CircuitSection(path), the file at path holding the same text:
\* self._netlist is read_netlist(path).
BuildFromFile ==
    /\ ~rt.fromfile.done
    /\ rt' = [rt EXCEPT !.fromfile = Built(ParseCleaned(read_netlist(rt.text)))]
    /\ UNCHANGED <<objvars, codec>>

NextBuild == BuildFromText \/ BuildFromFile

SpecBuild == InitBuild /\ [][NextBuild]_vars

----------------------------------------------------------------------------
(* Specification SpecClean: clean_netlist on a raw text, and again on its  *)
(* own output                                                              *)

\* The most lines a text given to clean_netlist holds here.
MaxCleanLines == 3

\* The lines the texts are made of.
CleanLineSet ==
    { Chars("r1 a b 1k $ c"), Chars("+ tc=1 $ d"), Chars("* c"), <<>>,
      Chars("$ c"), Chars("R2 a\t\tb"), Chars("r3 a b w= 1"),
      Chars("r4 a b w = 1"), Chars("r5 a 'x + y' b"), Chars(".INCLUDE F.sp"),
      Chars(".include F.sp") }

CleanTexts ==
    { Join(ls, <<"\n">>) :
          ls \in UNION { [1..n -> CleanLineSet] : n \in 1..MaxCleanLines } }

NotCleaned == [ok |-> FALSE, text |-> <<>>]

InitClean ==
    /\ NoObject
    /\ \E text \in CleanTexts :
           rt = [stage |-> "raw", text |-> text, out |-> NotCleaned,
                 again |-> NotCleaned]
    /\ codec = Idle

\* out = clean_netlist(text); out.ok is FALSE when the call raises.
Clean ==
    /\ rt.stage = "raw"
    /\ rt' = [rt EXCEPT !.stage = "cleaned", !.out = clean_netlist(rt.text)]
    /\ UNCHANGED <<objvars, codec>>

\* clean_netlist on the text clean_netlist returned.
CleanAgain ==
    /\ rt.stage = "cleaned"
    /\ rt.out.ok
    /\ rt' = [rt EXCEPT !.stage = "recleaned", !.again = clean_netlist(rt.out.text)]
    /\ UNCHANGED <<objvars, codec>>

NextClean == Clean \/ CleanAgain

SpecClean == InitClean /\ [][NextClean]_vars

----------------------------------------------------------------------------
(* Specification SpecEnclosed: remove_enclosed_space on a string           *)

\* The most characters a string given to remove_enclosed_space holds here.
MaxEnclosedLen == 5

\* The characters the strings are made of.
EnclosedChars == { "'", " ", "a" }

EnclosedStrings ==
    UNION { [1..n -> EnclosedChars] : n \in 0..MaxEnclosedLen }

InitEnclosed ==
    /\ NoObject
    /\ \E string \in EnclosedStrings :
           rt = [stage |-> "string", string |-> string, out |-> <<>>]
    /\ codec = Idle

\* out = remove_enclosed_space(string)
RemoveEnclosed ==
    /\ rt.stage = "string"
    /\ rt' = [rt EXCEPT !.stage = "unspaced",
                        !.out = remove_enclosed_space(rt.string)]
    /\ UNCHANGED <<objvars, codec>>

NextEnclosed == RemoveEnclosed

SpecEnclosed == InitEnclosed /\ [][NextEnclosed]_vars

----------------------------------------------------------------------------
(* Properties of SpecRT                                                    *)

\* C1: for every text parse accepts, parsing the text, serializing the
\* model and parsing the serialized text again gives the same sequence of
\* Elements: the second parse succeeds and, position by position, instance,
\* type, ports, location and args are those of the first parse (the uids
\* may differ).
RoundTripStable ==
    rt.stage = "reparsed" =>
        /\ rt.second.ok
        /\ DictValues(rt.second.elements) = DictValues(rt.first)

\* A round trip that ends with an Element at another location.
RoundTripMovesElement ==
    /\ rt.stage = "reparsed"
    /\ rt.second.ok
    /\ Len(rt.second.elements) = Len(rt.first)
    /\ \E i \in 1..Len(rt.first) :
           /\ rt.first[i][2].instance = rt.second.elements[i][2].instance
           /\ rt.first[i][2].location # rt.second.elements[i][2].location

----------------------------------------------------------------------------
(* Properties of SpecCodec                                                 *)

\* C9: repack_args(unpack_args(args)) = args for every list of tokens that
\* are bare values or key=value assignments, a token occurring more than
\* once included, when the dict goes from unpack_args to repack_args as it
\* is.
CodecRoundTrip ==
    (codec.stage = "repacked" /\ ~codec.edited) => codec.out = codec.args

\* The positional values 0 0 come back as one 0.
CodecDropsRepeat ==
    /\ codec.stage = "repacked"
    /\ ~codec.edited
    /\ codec.args = <<Chars("0"), Chars("0")>>
    /\ codec.out = <<Chars("0")>>

\* The token the specification gives for a key and its value: key=value
\* for every value but None.
RepackedToken(k, v) ==
    IF v = None THEN Format(k) ELSE Format(k) \o <<"=">> \o Format(v)

\* C17: repack_args gives, in the order of the dict, key=value for every
\* key whose value is not None (0, 0.0 and the empty string included) and
\* the bare key for a key whose value is None.
RepackWritesEveryValue ==
    codec.stage = "repacked" =>
        codec.out = [i \in 1..Len(codec.unpacked) |->
                        RepackedToken(codec.unpacked[i][1], codec.unpacked[i][2])]

\* The dict holds w with the number 0 and repack_args gives the bare w.
RepackDropsZero ==
    /\ codec.stage = "repacked"
    /\ codec.edited
    /\ codec.unpacked = <<<<PyStr(Chars("w")), [t |-> "zero", s |-> Chars("0")]>>>>
    /\ codec.out = <<Chars("w")>>

----------------------------------------------------------------------------
(* Properties of SpecQuery                                                 *)

\* All the orders of n criteria.
Perms(n) == { f \in [1..n -> 1..n] : \A i, j \in 1..n : f[i] = f[j] => i = j }

\* uid is in match(k, p) for every criterion (k, p) of items.
InEveryMatch(circ, items, uid) ==
    \A i \in 1..Len(items) :
        InList(uid, match(circ, items[i][1], items[i][2]).val)

\* C5: a filter call that returns gives exactly the uids that are in
\* match(k, p) for every criterion (k, p), each once, in the order of the
\* model; for a single pair that is match(k, p); and the criteria in any
\* other order give the same list.
FilterIsIntersection ==
    (last.op = "filter" /\ last.ok) =>
        /\ last.ret = SelectSeq(DictKeys(circuit),
               LAMBDA uid : InEveryMatch(circuit, last.in.filt.items, uid))
        /\ last.in.filt.shape = "tuple" =>
               last.ret = match(circuit, last.in.filt.items[1][1],
                                last.in.filt.items[1][2]).val
        /\ \A f \in Perms(Len(last.in.filt.items)) :
               filter(circuit,
                      [last.in.filt EXCEPT
                          !.items = [i \in 1..Len(@) |-> @[f[i]]]])
                   = [ok |-> TRUE, val |-> last.ret]

\* A filter of two criteria whose result is neither empty nor the matches
\* of one of the two.
FilterProperIntersection ==
    /\ last.op = "filter"
    /\ last.ok
    /\ last.in.filt.shape \in {"list", "dict"}
    /\ Len(last.in.filt.items) = 2
    /\ last.ret # <<>>
    /\ \A i \in 1..2 :
           last.ret # match(circuit, last.in.filt.items[i][1],
                            last.in.filt.items[i][2]).val

\* re.fullmatch(pattern, s) as a truth value: every alternative must reach
\* the end of s.
ReFullMatch(p, s) ==
    ReAltEnd([i \in 1..Len(ReCompile(p)) |->
                 Append(ReCompile(p)[i], [k |-> "eos", c |-> "", q |-> "1"])],
             s, 1) # 0

\* C6: match(field, pattern) returns exactly the uids whose field value
\* matches the pattern in full, in the order of the model; for a literal
\* pattern these are the Elements whose field equals the pattern.
MatchIsFullMatch ==
    (last.op = "match" /\ last.ok) =>
        last.ret = DictKeys(SelectSeq(circuit,
            LAMBDA kv : ReFullMatch(last.in.val, kv[2][last.in.key])))

\* match("instance", "r1") returns the uid of r10.
MatchReturnsPrefixMatch ==
    /\ last.op = "match"
    /\ last.in = [key |-> "instance", val |-> Chars("r1")]
    /\ \E i \in 1..Len(last.ret) :
           DictGet(circuit, last.ret[i]).instance = Chars("r10")

----------------------------------------------------------------------------
(* Properties of Spec                                                      *)

\* C2: an append call that returns inserts the Element under a uid the
\* model did not hold: the model has one Element more, the new one is last,
\* and every uid of before maps to its Element of before, in its place.
AppendInsertsFresh ==
    [][(last'.op = "append" /\ nops' = nops + 1 /\ last'.ok) =>
          /\ Len(circuit') = Len(circuit) + 1
          /\ ~DictHas(circuit, circuit'[Len(circuit')][1])
          /\ SubSeq(circuit', 1, Len(circuit)) = circuit]_vars

\* The first call on the object is an append that returns, and the model
\* is no longer than before.
AppendDidNotGrow ==
    /\ last.op = "append"
    /\ last.ok
    /\ nops = 1
    /\ Len(circuit) = Len(parsed_circuit)

\* The text the netlist property returns right after construction.
InitialText == JoinNetlist(synthesize(filename, parse(source).elements))

\* C3: parsed_circuit is the model of the initial parse in every state,
\* whatever calls were made; right after reset the circuit is that model
\* (same uids, same order, same Elements); and the netlist read right
\* after reset is the text read right after construction.
ResetRestores ==
    /\ [](parsed_circuit = parse(source).elements)
    /\ [](last.op = "reset" => circuit = parse(source).elements)
    /\ [][(last.op = "reset" /\ last'.op = "netlist") =>
             last'.ret = InitialText]_vars

\* A reset after two calls, when the netlist read before it was not the
\* initial text.
ResetAfterEdits ==
    /\ last.op = "reset"
    /\ nops >= 2
    /\ JoinNetlist(_netlist) # InitialText

\* What C4 asks of an apply call from circuit pre to circuit post, for
\* matches what filter gave on pre.
ApplyKept(pre, post, matches) ==
    /\ DictKeys(post) = DictKeys(pre)
    /\ \A i \in 1..Len(pre) :
           ~InList(pre[i][1], matches.val) =>
               /\ post[i] = pre[i]
               /\ SynthLine(post[i][2]) = SynthLine(pre[i][2])

\* C4: an apply call changes only Elements whose uid is in filter(criteria)
\* as evaluated before the call: every other Element keeps its place, its
\* fields and its serialized line (the transforms of Funcs only edit the
\* Element they are given), also when the transform raises part-way.
ApplyFrame ==
    [][(last'.op = "apply" /\ nops' = nops + 1) =>
          ApplyKept(circuit, circuit', filter(circuit, last'.in.filt))]_vars

\* An apply that changed the circuit and left some Element unmatched.
ApplyChangedSome ==
    /\ last.op = "apply"
    /\ last.ok
    /\ last.ret >= 1
    /\ last.ret < Len(circuit)
    /\ nops = 1
    /\ circuit # parsed_circuit

\* What C7 asks of an apply call from circuit pre to circuit post, for
\* uids the result of filter on pre.
ApplyVisited(pre, post, call, uids) ==
    /\ call.calls = uids
    /\ \A i, j \in 1..Len(uids) : uids[i] = uids[j] => i = j
    /\ \A i \in 1..Len(uids) :
           DictGet(post, uids[i]) =
               CallTransform(call.in.func, DictGet(pre, uids[i])).element
    /\ call.ret = Len(uids)
    /\ uids = <<>> => (post = pre /\ call.ret = 0)

\* What C7 asks of an apply call, for matches what filter gave on pre.
ApplyAsked(pre, post, call, matches) ==
    matches.ok => (call.ok /\ ApplyVisited(pre, post, call, matches.val))

\* C7: an apply call whose filter does not raise returns; it calls the
\* transform once for each uid of filter(criteria) as evaluated before the
\* first transform, in that order, stores what the transform returns under
\* that uid and returns the number of these uids; when nothing matches the
\* model is unchanged and 0 is returned.
ApplyVisitsMatches ==
    [][(last'.op = "apply" /\ nops' = nops + 1) =>
          ApplyAsked(circuit, circuit', last',
                     filter(circuit, last'.in.filt))]_vars

\* After append(".param"), apply(alter_var, {instance .param, type
\* statement}, variable=2, name="x") raised on the third of the three
\* matched Elements, which has no args: no count is returned and the first
\* Element is stored with x=2.
ApplyRaisedPartWay ==
    /\ last.op = "apply"
    /\ ~last.ok
    /\ last.in.func.name = "alter_var"
    /\ filter(circuit, last.in.filt).ok
    /\ Len(filter(circuit, last.in.filt).val) = 3
    /\ last.calls = filter(circuit, last.in.filt).val
    /\ nops = 2
    /\ parsed_circuit[1][2].args = <<Chars("x=1")>>
    /\ circuit[1][2].args = <<Chars("x=2")>>
    /\ circuit[3][2].args = <<>>

\* The lines of a synthesized netlist, without the header and without the
\* blank line that follows a .ends.
BodyLines(lst) == SelectSeq(Tail(lst), LAMBDA l : l # <<"\n">>)

\* The calls C8 is about: the call that set last to call, made on circ.
KeepsKeys(call, circ) ==
    \/ call.op \in {"match", "filter", "apply", "replace_argument", "netlist"}
    \/ call.op = "setitem" /\ DictHas(circ, call.in.key)

\* C8: no two Elements of the circuit share a uid; match, filter, apply,
\* replace_argument, a point write to a uid the circuit holds and a read of
\* netlist leave the sequence of the uids as it is; and the netlist read
\* holds the line of each Element in the order of the uids.
UidSequenceStable ==
    /\ [](DistinctKeys(circuit))
    /\ [][KeepsKeys(last', circuit) =>
             DictKeys(circuit') = DictKeys(circuit)]_vars
    /\ [][last'.op = "netlist" =>
             BodyLines(_netlist') =
                 [i \in 1..Len(circuit) |->
                     SynthLine(circuit[i][2]) \o <<"\n">>]]_vars

\* A point write to a uid that is not the last of the circuit.
WroteExistingUid ==
    /\ last.op = "setitem"
    /\ nops = 1
    /\ Len(circuit) = Len(parsed_circuit)
    /\ Len(circuit) >= 2
    /\ last.in.key = circuit[1][1]
    /\ circuit[1][2] = last.in.item

\* token is an assignment to key: key=old.
IsAssignment(token, key) ==
    Len(Split1(token, "=")) = 2 /\ Split1(token, "=")[1] = key

\* args with every assignment to key set to key=val.
WithAssignment(args, key, val) ==
    [i \in 1..Len(args) |->
        IF IsAssignment(args[i], key) THEN key \o <<"=">> \o Format(val)
        ELSE args[i]]

\* C10: replace_argument(uid, cir, key, val) on an Element whose args hold
\* a token key=old returns, sets that token to key=val where it is, and
\* leaves the other tokens of the Element, its other fields and the other
\* Elements as they are.
ReplaceArgumentFrame ==
    [][(/\ last'.op = "replace_argument"
        /\ nops' = nops + 1
        /\ \E i \in 1..Len(DictGet(circuit, last'.in.uid).args) :
               IsAssignment(DictGet(circuit, last'.in.uid).args[i],
                            last'.in.key)) =>
          /\ last'.ok
          /\ circuit' = DictSet(circuit, last'.in.uid,
                 [DictGet(circuit, last'.in.uid) EXCEPT
                     !.args = WithAssignment(@, last'.in.key, last'.in.val)])]_vars

\* The first call on the object is a replace_argument that returns, and
\* the Element has fewer args than before.
ReplaceArgumentLostToken ==
    /\ last.op = "replace_argument"
    /\ last.ok
    /\ nops = 1
    /\ Len(DictGet(circuit, last.in.uid).args)
           < Len(DictGet(parsed_circuit, last.in.uid).args)

\* C15: when replace_argument raises, for a key that is not among the args
\* of the Element or part-way through the renaming of a bare token, the
\* circuit is as before the call: the args of the Element and every other
\* Element.
ReplaceArgumentRaisesClean ==
    [][(/\ last'.op = "replace_argument"
        /\ nops' = nops + 1
        /\ ~last'.ok) => circuit' = circuit]_vars

\* The first call on the object is a replace_argument that raised, for a
\* key that is a bare token of the Element after another token: the
\* renaming had begun.
ReplaceArgumentRaisedPartWay ==
    /\ last.op = "replace_argument"
    /\ ~last.ok
    /\ nops = 1
    /\ \E i \in 2..Len(DictGet(circuit, last.in.uid).args) :
           DictGet(circuit, last.in.uid).args[i] = last.in.key
    /\ circuit = parsed_circuit

\* C18: a read of netlist returns the serialization of the circuit as it
\* is at the read, after any point write, edit of an Element, apply,
\* append, replace_argument or reset, never the text of an earlier state.
NetlistIsFresh ==
    last.op = "netlist" =>
        /\ last.ret = JoinNetlist(synthesize(filename, circuit))
        /\ _netlist = synthesize(filename, circuit)

\* netlist is read after calls that changed the circuit, and the text is
\* not the text of the circuit as constructed.
NetlistReadAfterChange ==
    /\ last.op = "netlist"
    /\ nops >= 1
    /\ circuit # parsed_circuit
    /\ last.ret # InitialText
    /\ last.ret = JoinNetlist(synthesize(filename, circuit))

\* The port node names of an Element joined into one string.
PortsText(e) == Join(DictValues(e.ports), <<" ">>)

\* The uids of the Elements whose joined ports match the pattern.
PortsMatches(circ, pattern) ==
    DictKeys(SelectSeq(circ, LAMBDA kv : ReFullMatch(pattern, PortsText(kv[2]))))

\* C19: match("ports", pattern), and filter with the criterion
\* ("ports", pattern), return the uids of the Elements whose port node
\* names, joined into one string, match the pattern, an Element without
\* ports being matched against the empty string.
MatchOnPortsAnswers ==
    /\ (last.op = "match" /\ last.in.key = "ports") =>
           (last.ok /\ last.ret = PortsMatches(circuit, last.in.val))
    /\ (last.op = "filter" /\ last.in.filt.items[1][1] = "ports") =>
           (last.ok /\ last.ret = PortsMatches(circuit, last.in.filt.items[1][2]))

\* match("ports", "a.*") on a circuit with a resistor between a and b
\* raised.
MatchOnPortsRaised ==
    /\ last.op = "match"
    /\ last.in.key = "ports"
    /\ ~last.ok
    /\ \E i \in 1..Len(circuit) : PortsText(circuit[i][2]) = Chars("a b")

\* args with every bare token key set to val.
WithToken(args, key, val) ==
    [i \in 1..Len(args) |-> IF args[i] = key THEN Format(val) ELSE args[i]]

\* C29: replace_argument(uid, cir, key, val) on an Element whose args hold
\* key as a bare token, at any position, returns, puts val in the place of
\* that token and leaves the other tokens as they are and in their order.
BareTokenReplacedInPlace ==
    [][(/\ last'.op = "replace_argument"
        /\ nops' = nops + 1
        /\ \E i \in 1..Len(DictGet(circuit, last'.in.uid).args) :
               DictGet(circuit, last'.in.uid).args[i] = last'.in.key) =>
          /\ last'.ok
          /\ circuit' = DictSet(circuit, last'.in.uid,
                 [DictGet(circuit, last'.in.uid) EXCEPT
                     !.args = WithToken(@, last'.in.key, last'.in.val)])]_vars

\* replace_argument for the key a raised on xr1, whose args are w a b: the
\* bare token a is the second of the args.
BareTokenNotFirstRaised ==
    /\ last.op = "replace_argument"
    /\ ~last.ok
    /\ last.in.key = Chars("a")
    /\ DictGet(circuit, last.in.uid).instance = Chars("xr1")
    /\ DictGet(circuit, last.in.uid).args = <<Chars("w"), Chars("a"), Chars("b")>>

----------------------------------------------------------------------------
(* Properties of SpecParse                                                 *)
(* What the specification says of a text is written down on its own here,  *)
(* line by line, and compared with what parse returns.                     *)

\* The tokens of a line and its first token.
Tokens(line) == Split(Strip(line), " ")
FirstToken(line) == Tokens(line)[1]

\* A line that gives no Element wherever it stands: empty, exactly .end,
\* or a full-line comment.
RefSkipped(line) ==
    \/ Strip(line) = <<>>
    \/ Strip(line) = Chars(".end")
    \/ Head(Strip(line)) = "*"

\* The stack after a .subckt line has pushed its name.
RefPush(stack, line) ==
    IF FirstToken(line) # Chars(".subckt") THEN stack
    ELSE Append(stack, IF Len(Tokens(line)) >= 2 THEN Tokens(line)[2] ELSE <<>>)

\* The stack after a .ends line has popped.
RefPop(stack, line) ==
    IF FirstToken(line) = Chars(".ends") /\ stack # <<>>
    THEN SubSeq(stack, 1, Len(stack) - 1) ELSE stack

RECURSIVE RefLoop(_, _, _, _)
\* A line outside a control block is recorded with the location of the
\* stack after its push and before its pop.
RefRecord(lines, stack, out) ==
    RefLoop(Tail(lines), FALSE, RefPop(stack, Head(lines)),
            Append(out, [line |-> Strip(Head(lines)),
                         location |-> Join(stack, <<"/">>)]))

\* The lines that are to give an Element, in order, each with its location:
\* a control block runs from a line whose first token is .control to the
\* next line whose first token is .endc.
RefLoop(lines, ctl, stack, out) ==
    IF lines = <<>> THEN out
    ELSE IF RefSkipped(Head(lines)) THEN RefLoop(Tail(lines), ctl, stack, out)
    ELSE IF ctl
    THEN RefLoop(Tail(lines), FirstToken(Head(lines)) # Chars(".endc"), stack, out)
    ELSE IF FirstToken(Head(lines)) = Chars(".control")
    THEN RefLoop(Tail(lines), TRUE, stack, out)
    ELSE RefRecord(lines, RefPush(stack, Head(lines)), out)

RefLines(text) == RefLoop(Split(text, "\n"), FALSE, <<Chars("root")>>, <<>>)

RECURSIVE BalancedFrom(_, _)
\* Every .ends closes an open block and no block is left open.
BalancedFrom(ref, depth) ==
    IF ref = <<>> THEN depth = 0
    ELSE IF FirstToken(Head(ref).line) = Chars(".subckt")
    THEN BalancedFrom(Tail(ref), depth + 1)
    ELSE IF FirstToken(Head(ref).line) = Chars(".ends")
    THEN depth > 0 /\ BalancedFrom(Tail(ref), depth - 1)
    ELSE BalancedFrom(Tail(ref), depth)

Balanced(text) == BalancedFrom(RefLines(text), 0)

\* The locations of the Elements of a model, in order.
Locations(elements) == [i \in 1..Len(elements) |-> elements[i][2].location]

\* C11: for a text with balanced .subckt/.ends lines that parse accepts,
\* the locations of the Elements are, in order, root followed by the names
\* of the blocks open at the line, joined by / ; the .subckt and the .ends
\* line of a block have the location that includes the block.
LocationsFollowBlocks ==
    (/\ rt.stage = "parsed"
     /\ Balanced(rt.text)
     /\ Len(rt.first) = Len(RefLines(rt.text))) =>
        Locations(rt.first) =
            [i \in 1..Len(RefLines(rt.text)) |-> RefLines(rt.text)[i].location]

\* The .ends line of the block a, after an instance called rends, is
\* recorded at root.
LocationLostBlock ==
    /\ rt.stage = "parsed"
    /\ rt.text = Chars(".subckt a n1\nrends a b 1k\n.ends")
    /\ Balanced(rt.text)
    /\ Len(rt.first) = 3
    /\ rt.first[3][2].location = Chars("root")

\* The stripped line of the text an Element was made of: the uid is the
\* digest of the line's index and text.
SourceLine(lines, uid) ==
    Strip(lines[CHOOSE k \in 1..Len(lines) : Uid(k - 1, Strip(lines[k])) = uid])

\* The port roles the type table gives for an instance name.
Roles(instance) ==
    emap[LineType(UpperChar(instance[1]),
                  IF Len(instance) > 1 THEN UpperChar(instance[2]) ELSE " ")][2]

\* The ports of e are keyed by the roles and the args of e are the tokens
\* after the instance name and one token for each role.
PortsAndArgsOf(e, tokens, roles) ==
    /\ DictKeys(e.ports) = roles
    /\ e.args = Slice(tokens, Len(roles) + 2, Len(tokens))

\* C12: every Element parse produces has the port roles of its type in the
\* type table, all of them and in table order, and its args are the tokens
\* after those ports, also on a line with fewer tokens than the arity.
PortsMatchArity ==
    rt.stage = "parsed" =>
        \A i \in 1..Len(rt.first) :
            PortsAndArgsOf(rt.first[i][2],
                           Tokens(SourceLine(Split(rt.text, "\n"), rt.first[i][1])),
                           Roles(rt.first[i][2].instance))

\* The resistor line r1 a gives an Element with one port.
PortsFewerThanArity ==
    /\ rt.stage = "parsed"
    /\ rt.text = Chars("r1 a")
    /\ Len(rt.first) = 1
    /\ DictKeys(rt.first[1][2].ports) = <<Chars("n+")>>
    /\ Roles(rt.first[1][2].instance) = Ports2

\* The instance names of the Elements of a model, in order.
Instances(elements) == [i \in 1..Len(elements) |-> elements[i][2].instance]

\* C13: parse gives one Element, in source order, for every line that is
\* not empty, not .end, not a full-line comment and not inside a control
\* block, a control block running from a line whose first token is .control
\* to the next line whose first token is .endc; no other line is dropped.
OneElementPerLine ==
    rt.stage = "parsed" =>
        Instances(rt.first) =
            [i \in 1..Len(RefLines(rt.text)) |-> FirstToken(RefLines(rt.text)[i].line)]

\* The instance line rcontrol a b and the resistor after it give no
\* Element.
InstanceLinesDropped ==
    /\ rt.stage = "parsed"
    /\ rt.text = Chars("rcontrol a b\nr1 a b 1k")
    /\ Len(RefLines(rt.text)) = 2
    /\ rt.first = <<>>

\* The leading one or two characters of the line are no key of the type
\* table.
UnknownPrefix(line) ==
    /\ Strip(line) # <<>>
    /\ LineType(UpperChar(Strip(line)[1]),
                IF Len(Strip(line)) > 1 THEN UpperChar(Strip(line)[2]) ELSE " ")
           \notin DOMAIN emap

\* C14: a line with an unknown prefix makes parsing fail and never yields a
\* model: no CircuitSection is built from a text that holds such a line
\* among the lines to be classified, and append of such a line raises and
\* leaves the circuit as it was.
UnknownPrefixFails ==
    /\ rt.stage = "parsed" =>
           \A i \in 1..Len(RefLines(rt.text)) :
               ~UnknownPrefix(RefLines(rt.text)[i].line)
    /\ (rt.stage = "appended" /\ UnknownPrefix(rt.out)) =>
           (~rt.second.ok /\ rt.second.elements = rt.first)

\* A CircuitSection is built from the text 1control a, whose prefix 1 is no
\* key of the type table; its model is empty.
UnknownPrefixAccepted ==
    /\ rt.stage = "parsed"
    /\ rt.text = Chars("1control a")
    /\ UnknownPrefix(RefLines(rt.text)[1].line)
    /\ rt.first = <<>>

\* The hierarchy stack of parse after the first k lines.
HierarchyAfter(lines, k) ==
    ParseLoop(ParseStart, SubSeq(lines, 1, k), 1).hierarchy

\* The first token of the line is neither .subckt nor .ends.
OtherLine(line) == FirstToken(line) \notin {Chars(".subckt"), Chars(".ends")}

HierarchyKept(lines) ==
    \A k \in 1..Len(lines) :
        OtherLine(lines[k]) => HierarchyAfter(lines, k) = HierarchyAfter(lines, k - 1)

\* C20: during parse only a line whose first token is .subckt pushes the
\* hierarchy stack and only a line whose first token is .ends pops it; any
\* other line, whatever its name, leaves the stack, and so the location of
\* the Elements after it, as it was.
OnlyBlockLinesMoveHierarchy ==
    rt.stage = "parsed" => HierarchyKept(Split(rt.text, "\n"))

\* After the instance line xsubckt1 a b the resistor r1 is at root/a.
InstancePushedHierarchy ==
    /\ rt.stage = "parsed"
    /\ rt.text = Chars("xsubckt1 a b\nr1 a b 1k")
    /\ Len(rt.first) = 2
    /\ rt.first[1][2].location = Chars("root/a")
    /\ rt.first[2][2].location = Chars("root/a")

----------------------------------------------------------------------------
(* Properties of SpecBuild                                                 *)

\* C16: a CircuitSection built from a text holds the same model as one
\* built from a file with the same content (the same uids in the same
\* order, with the same instance, type, ports, args and location), the text
\* passing through clean_netlist on both paths.
TextAndFileSameModel ==
    (rt.fromtext.done /\ rt.fromfile.done) => rt.fromtext = rt.fromfile

\* From the content R1 a b 1k the text path gives the instance R1 and the
\* file path the instance r1.
TextPathKeepsCase ==
    /\ rt.fromtext.done /\ rt.fromfile.done
    /\ rt.text = Chars("R1 a b 1k")
    /\ rt.fromtext.ok /\ rt.fromfile.ok
    /\ rt.fromtext.elements[1][2].instance = Chars("R1")
    /\ rt.fromfile.elements[1][2].instance = Chars("r1")

\* The location is root or a path under root.
UnderRoot(location) ==
    location = Chars("root") \/ StartsWith(location, Chars("root/"))

\* C21: at every step of parse the hierarchy stack is not empty and has root
\* at its bottom, also for a text with more .ends lines than .subckt lines,
\* so the location of every Element is root or starts with root/ .
RootStaysAtBottom ==
    rt.stage = "parsed" =>
        /\ \A k \in 0..Len(Split(rt.text, "\n")) :
               /\ HierarchyAfter(Split(rt.text, "\n"), k) # <<>>
               /\ HierarchyAfter(Split(rt.text, "\n"), k)[1] = Chars("root")
        /\ \A i \in 1..Len(rt.first) : UnderRoot(rt.first[i][2].location)

\* After a .ends line that closes no block the resistor r1 has the empty
\* location.
ElementOutsideRoot ==
    /\ rt.stage = "parsed"
    /\ rt.text = Chars(".ends\nr1 a b 1k")
    /\ Len(rt.first) = 2
    /\ rt.first[2][2].location = <<>>

----------------------------------------------------------------------------
(* Properties of SpecRT: the lines of synthesize                           *)

\* The line of an Element: the instance, the port node names and the args,
\* a single space between them and nothing after the last.
ElementLine(e) == Join(<<e.instance>> \o DictValues(e.ports) \o e.args, <<" ">>)

RECURSIVE ElementLines(_)
\* The lines of the Elements, each with its newline, and the empty line
\* that follows a .ends line.
ElementLines(circ) ==
    IF circ = <<>> THEN <<>>
    ELSE ElementLine(Head(circ)[2]) \o <<"\n">>
           \o (IF Head(circ)[2].instance = Chars(".ends") THEN <<"\n">> ELSE <<>>)
           \o ElementLines(Tail(circ))

\* C28: every Element line synthesize produces is the instance, then the
\* port node names, then the args, separated by single spaces, with no
\* whitespace before the newline, also for an Element without args and for
\* an Element with neither ports nor args.
LinesHaveNoTrailingSpace ==
    rt.stage = "serialized" =>
        rt.out = Chars("* ") \o filename \o Chars("\n\n") \o ElementLines(rt.first)

\* The line of .ends is written with a space before its newline.
EndsLineHasTrailingSpace ==
    /\ rt.stage = "serialized"
    /\ rt.text = Chars(".subckt a n1\n.ends")
    /\ rt.out = Chars("* Netlist\n\n.subckt a n1\n.ends \n\n")

----------------------------------------------------------------------------
(* Properties of SpecClean                                                 *)

\* A line read without its spaces, tabs and letter case.
Squeeze(s) == Lower(SelectSeq(s, LAMBDA c : c \notin {" ", "\t"}))

\* The part of a raw line that is not comment: from its first character
\* that is no space to its first $ .
Statement(line) ==
    IF Find(LStrip(line), "$", 1) = 0 THEN LStrip(line)
    ELSE SubSeq(LStrip(line), 1, Find(LStrip(line), "$", 1) - 1)

\* A raw line that holds no statement: blank, a * comment, or nothing but
\* a $ comment.
NoStatement(line) ==
    \/ Squeeze(Statement(line)) = <<>>
    \/ Head(LStrip(line)) = "*"

RECURSIVE Merged(_, _)
\* The logical lines of a raw text: each statement followed by the lines
\* beginning with + that come after it, in input order.
Merged(lines, out) ==
    IF lines = <<>> THEN out
    ELSE IF NoStatement(Head(lines)) THEN Merged(Tail(lines), out)
    ELSE IF Head(Statement(Head(lines))) = "+" /\ out # <<>>
    THEN Merged(Tail(lines),
                [out EXCEPT ![Len(out)] =
                    @ \o <<" ">> \o Tail(Statement(Head(lines)))])
    ELSE Merged(Tail(lines),
                Append(out, IF Head(Statement(Head(lines))) = "+"
                            THEN Tail(Statement(Head(lines)))
                            ELSE Statement(Head(lines))))

\* The lines of the text clean_netlist returned that are not blank.
OutLines(text) ==
    SelectSeq(Split(text, "\n"), LAMBDA l : Squeeze(l) # <<>>)

SqueezeAll(lines) == [i \in 1..Len(lines) |-> Squeeze(lines[i])]

\* C22: clean_netlist appends every line beginning with + to the logical
\* line before it, in input order, so that no output line begins with + ;
\* comment lines and blank lines between a statement and its continuation
\* do not break the merge, and no text of a $ comment is left.  The output
\* lines are compared with the logical lines without regard to spaces and
\* letter case.
ContinuationsMerged ==
    (rt.stage = "cleaned" /\ rt.out.ok) =>
        /\ SqueezeAll(OutLines(rt.out.text))
               = SqueezeAll(Merged(Split(rt.text, "\n"), <<>>))
        /\ \A i \in 1..Len(OutLines(rt.out.text)) :
               /\ Head(LStrip(OutLines(rt.out.text)[i])) # "+"
               /\ Find(OutLines(rt.out.text)[i], "$", 1) = 0

\* A line that is nothing but a $ comment stands between r1 and its
\* continuation: the continuation is an output line of its own.
ContinuationCutOff ==
    /\ rt.stage = "cleaned"
    /\ rt.out.ok
    /\ rt.text = Chars("r1 a b 1k $ c\n$ c\n+ tc=1 $ d")
    /\ OutLines(rt.out.text) = <<Chars("r1 a b 1k "), Chars(" tc=1 ")>>

\* s holds a tab, or two spaces one after the other.
HasWideSpace(s) ==
    \/ \E i \in 1..Len(s) : s[i] = "\t"
    \/ \E i \in 1..(Len(s) - 1) : s[i] = " " /\ s[i + 1] = " "

\* C23: after clean_netlist every run of spaces and tabs of the input is a
\* single space: the output holds no tab and no two spaces one after the
\* other.
WhitespaceUnified ==
    (rt.stage = "cleaned" /\ rt.out.ok) => ~HasWideSpace(rt.out.text)

\* The two tabs of R2 a<tab><tab>b come out as two spaces.
TabsBecomeTwoSpaces ==
    /\ rt.stage = "cleaned"
    /\ rt.out.ok
    /\ rt.text = Chars("R2 a\t\tb")
    /\ rt.out.text = Chars("r2 a  b")

\* s holds an = with a space directly before or directly after it.
HasSpacedAssignment(s) ==
    \E i \in 1..Len(s) :
        /\ s[i] = "="
        /\ \/ (i > 1 /\ s[i - 1] = " ")
           \/ (i < Len(s) /\ s[i + 1] = " ")

\* C24: after clean_netlist no = of the output has a space directly before
\* it or directly after it: a = b, a= b and a =b all become a=b.
AssignmentsUnspaced ==
    (rt.stage = "cleaned" /\ rt.out.ok) => ~HasSpacedAssignment(rt.out.text)

\* The space after the = of w= 1 is kept.
SpaceAfterAssignmentKept ==
    /\ rt.stage = "cleaned"
    /\ rt.out.ok
    /\ rt.text = Chars("r3 a b w= 1")
    /\ rt.out.text = Chars("r3 a b w= 1")

\* The line is an include directive, in whatever letter case.
IsInclude(line) == Lower(FirstToken(line)) = Chars(".include")

\* An include directive of the output has the file path of an include
\* directive of the input, letter for letter.
PathKept(line, raw) ==
    \E k \in 1..Len(raw) :
        /\ IsInclude(raw[k])
        /\ Len(Tokens(raw[k])) >= 2
        /\ Len(Tokens(line)) >= 2
        /\ Tokens(raw[k])[2] = Tokens(line)[2]

\* C26: clean_netlist lowercases every output line but the include
\* directives: a line beginning with .include, in whatever letter case the
\* directive is written, keeps the case of its file path, and every other
\* line is lowercase.
LowercaseButIncludePaths ==
    (rt.stage = "cleaned" /\ rt.out.ok) =>
        \A i \in 1..Len(OutLines(rt.out.text)) :
            IF IsInclude(OutLines(rt.out.text)[i])
            THEN PathKept(OutLines(rt.out.text)[i], Split(rt.text, "\n"))
            ELSE OutLines(rt.out.text)[i] = Lower(OutLines(rt.out.text)[i])

\* The file path of .INCLUDE F.sp comes out as f.sp.
IncludePathLowered ==
    /\ rt.stage = "cleaned"
    /\ rt.out.ok
    /\ rt.text = Chars(".INCLUDE F.sp")
    /\ rt.out.text = Chars(".include f.sp")

\* The line holds a statement: it is not empty, not made of whitespace and
\* not a * comment.
IsStatementLine(line) == Squeeze(line) # <<>> /\ Head(LStrip(line)) # "*"

\* C27: the output of clean_netlist, when it is not empty, holds no empty
\* line, no line of whitespace and no * comment, also when the input has
\* lines that are nothing but a $ comment: every output line is a
\* statement.
EveryOutputLineIsStatement ==
    (rt.stage = "cleaned" /\ rt.out.ok /\ rt.out.text # <<>>) =>
        \A i \in 1..Len(Split(rt.out.text, "\n")) :
            IsStatementLine(Split(rt.out.text, "\n")[i])

\* The line $ c after r1 is left in the output as an empty line.
CommentLeftEmptyLine ==
    /\ rt.stage = "cleaned"
    /\ rt.out.ok
    /\ rt.text = Chars("r1 a b 1k $ c\n$ c")
    /\ rt.out.text = Chars("r1 a b 1k \n")

\* C30: clean_netlist is idempotent: on the text it returned it returns
\* that text again.
CleanIdempotent ==
    rt.stage = "recleaned" => (rt.again.ok /\ rt.again.text = rt.out.text)

\* The second clean_netlist turns the two spaces the first one made of two
\* tabs into one.
SecondCleanChangesText ==
    /\ rt.stage = "recleaned"
    /\ rt.text = Chars("R2 a\t\tb")
    /\ rt.out.text = Chars("r2 a  b")
    /\ rt.again.ok
    /\ rt.again.text = Chars("r2 a b")

----------------------------------------------------------------------------
(* Properties of SpecEnclosed                                              *)

\* How many ' the string holds before position i.
QuotesBefore(s, i) == Cardinality({ j \in 1..(i - 1) : s[j] = "'" })

\* The space at position i is inside quotes.
EnclosedSpace(s, i) == s[i] = " " /\ QuotesBefore(s, i) % 2 = 1

RECURSIVE WithoutEnclosed(_, _)
\* The characters of s from position i on, in order, without the spaces
\* inside quotes.
WithoutEnclosed(s, i) ==
    IF i > Len(s) THEN <<>>
    ELSE (IF EnclosedSpace(s, i) THEN <<>> ELSE <<s[i]>>)
             \o WithoutEnclosed(s, i + 1)

\* C25: remove_enclosed_space removes a space exactly when an odd number
\* of ' stands before it; every other character, and every space outside
\* quotes, is kept in its order.
OnlyEnclosedSpacesRemoved ==
    rt.stage = "unspaced" => rt.out = WithoutEnclosed(rt.string, 1)

\* The space between the two ' is removed and the space after them is
\* kept.
EnclosedSpaceRemoved ==
    /\ rt.stage = "unspaced"
    /\ rt.string = <<"'", " ", "'", " ", "a">>
    /\ rt.out = <<"'", "'", " ", "a">>

====
